---------------------------- MODULE Spec2Model ----------------------------
(***************************************************************************)
(* A model of beetsonic: the Subsonic API layer over a beets library.      *)
(*   src/beetsplug/beetsonic/models.py  BeetIdType (the identifier codec)  *)
(*                                      BeetsModel (the catalog adapter)   *)
(*   src/beetsplug/beetsonic/web.py     ApiBlueprint (hooks and routes),   *)
(*                                      ResponseView, BinaryView            *)
(*                                                                         *)
(* Text is a sequence of one-character strings, so that splitting,         *)
(* parsing and formatting are computed character by character, as the      *)
(* code does.                                                              *)
(***************************************************************************)
EXTENDS Integers, Sequences, FiniteSets, TLC

VARIABLES
    py3,        \* the interpreter the package runs under: TRUE Python 3, FALSE Python 2
    configs,    \* the plugin configuration handed to ApiBlueprint (username, password)
    lib,        \* the beets library the BeetsModel reads
    pc,         \* where the current request is in Flask's request handling
    request,    \* the request being handled (route, query arguments, Range header)
    resp,       \* the response produced for the current request
    answeredBy, \* which step produced the response
    invoked,    \* the route function that ran for this request ("none": none did)
    modelCalls, \* the BeetsModel methods called while handling this request
    raised,     \* the exception that left the route function ("none": none did)
    sizeArg,    \* the size get_random_songs was called with (-1: it was not called)
    hook,       \* index of the next before_request function to run
    raw,        \* codec: the (kind, raw value) last given to an encoder
    extId,      \* codec: the external id under consideration
    decoded,    \* codec: what get_type made of extId
    rangeIn,    \* range: the file size and Range header given to send_file_partial
    rangeOut    \* range: the response send_file_partial built

webVars == <<pc, request, resp, answeredBy, invoked, modelCalls, raised, sizeArg, hook>>
envVars == <<py3, configs, lib>>
codecVars == <<raw, extId, decoded>>
rangeVars == <<rangeIn, rangeOut>>
vars == <<py3, configs, lib, pc, request, resp, answeredBy, invoked, modelCalls,
          raised, sizeArg, hook, raw, extId, decoded, rangeIn, rangeOut>>

----------------------------------------------------------------------------
(* Bounds of the model.                                                    *)

\* Longest free text tried as the part of an id after its kind token.
MaxRawLen == 3
\* Internal album and item ids handed to the encoders range over -MaxInt..MaxInt.
MaxInt == 12
\* Largest file size tried exhaustively by the byte-range model.
MaxSize == 4
\* Client protocol versions tried: majors 0..MaxMajor, minors 0..MaxMinor,
\* patch numbers 0..MaxPatch (and no patch number).
MaxMajor == 2
MaxMinor == 18
MaxPatch == 1

----------------------------------------------------------------------------
(* Text.                                                                   *)

Digits == <<"0", "1", "2", "3", "4", "5", "6", "7", "8", "9">>

IsDigit(c) == \E i \in 1..10 : Digits[i] = c

DigitValue(c) == (CHOOSE i \in 1..10 : Digits[i] = c) - 1

AllDigits(s) == \A i \in 1..Len(s) : IsDigit(s[i])

RECURSIVE NatOfDigits(_)
NatOfDigits(s) ==
    IF s = <<>> THEN 0
    ELSE 10 * NatOfDigits(SubSeq(s, 1, Len(s) - 1)) + DigitValue(s[Len(s)])

RECURSIVE DigitsOfNat(_)
DigitsOfNat(n) ==
    IF n < 10 THEN <<Digits[n + 1]>>
    ELSE DigitsOfNat(n \div 10) \o <<Digits[(n % 10) + 1]>>

\* Python's str(n) for an integer n.
str(n) == IF n < 0 THEN <<"-">> \o DigitsOfNat(-n) ELSE DigitsOfNat(n)

\* Python's int(s) for text s: an optional sign, then one or more decimal
\* digits.  (int also strips blanks and allows '_' between digits; the texts
\* of this model hold neither.)  IntParses(s) is FALSE where int raises
\* ValueError.
IntBody(s) == IF s # <<>> /\ s[1] \in {"-", "+"} THEN Tail(s) ELSE s

IntParses(s) == IntBody(s) # <<>> /\ AllDigits(IntBody(s))

int(s) ==
    IF s # <<>> /\ s[1] = "-" THEN -NatOfDigits(IntBody(s))
    ELSE NatOfDigits(IntBody(s))

\* Python's s.split(sep) for a one-character separator: a sequence of texts.
RECURSIVE split(_, _)
split(s, sep) ==
    IF \A i \in 1..Len(s) : s[i] # sep THEN <<s>>
    ELSE LET i == CHOOSE j \in 1..Len(s) :
                      s[j] = sep /\ \A k \in 1..(j - 1) : s[k] # sep
         IN  <<SubSeq(s, 1, i - 1)>> \o split(SubSeq(s, i + 1, Len(s)), sep)

startswith(s, prefix) ==
    Len(s) >= Len(prefix) /\ SubSeq(s, 1, Len(prefix)) = prefix

\* The elements of a finite set of integers in increasing order.
RECURSIVE SetToSortedSeq(_)
SetToSortedSeq(S) ==
    IF S = {} THEN <<>>
    ELSE LET least == CHOOSE x \in S : \A y \in S : x <= y
         IN  <<least>> \o SetToSortedSeq(S \ {least})

\* All texts over alphabet A of length at most n.
RECURSIVE TextsUpTo(_, _)
TextsUpTo(A, n) ==
    IF n = 0 THEN {<<>>}
    ELSE LET shorter == TextsUpTo(A, n - 1)
         IN  shorter \cup {Append(t, c) : t \in shorter, c \in A}

----------------------------------------------------------------------------
(* models.py: BeetIdType, the identifier codec.                            *)

album == <<"a", "l", "b", "u", "m">>
item == <<"i", "t", "e", "m">>
artist == <<"a", "r", "t", "i", "s", "t">>
playlist == <<"p", "l", "a", "y", "l", "i", "s", "t">>

\* The members of the enum.
BeetIdType == {album, item, artist, playlist}

\* A decoded raw value: an integer (album, item) or a text (artist, playlist).
IntVal(n) == [t |-> "int", n |-> n, s |-> <<>>]
StrVal(s) == [t |-> "str", n |-> 0, s |-> s]
NoValue == [t |-> "none", n |-> 0, s |-> <<>>]

\* The outcome of a call: a returned (kind, value) pair or a raised exception.
Returned(k, v) == [exc |-> "none", kind |-> k, value |-> v]
Raised(e) == [exc |-> e, kind |-> <<>>, value |-> NoValue]

\* BeetIdType.get_type: value.split(':') cuts at every ':'; the raw value is
\* the second part alone.
get_type(value) ==
    LET value_parts == split(value, ":")
    IN  IF Len(value_parts) <= 1 THEN Raised("ValueError")
        ELSE IF value_parts[1] \notin BeetIdType THEN Raised("ValueError")
        ELSE IF value_parts[1] \in {album, item}
             THEN IF IntParses(value_parts[2])
                  THEN Returned(value_parts[1], IntVal(int(value_parts[2])))
                  ELSE Raised("ValueError")
             ELSE Returned(value_parts[1], StrVal(value_parts[2]))

get_artist_id(name) == artist \o <<":">> \o name

get_album_id(album_id) == album \o <<":">> \o str(album_id)

get_item_id(item_id) == item \o <<":">> \o str(item_id)

get_playlist_id(playlist_name) == playlist \o <<":">> \o playlist_name


----------------------------------------------------------------------------
(* The codec exercised on its own: ids built by the encoders from raw      *)
(* values, and arbitrary texts supplied as ids, are given to get_type.     *)

\* Characters of the raw texts tried: a letter, the separator, a digit, a sign.
RawAlphabet == {"a", ":", "1", "-"}

RawTexts == TextsUpTo(RawAlphabet, MaxRawLen)

RawInts == (-MaxInt)..MaxInt

\* Kind tokens tried in supplied ids: the four kinds, an unknown one, a
\* differently cased one and the empty one.
KindTokens == BeetIdType \cup {<<"f", "o", "o">>, <<"A", "l", "b", "u", "m">>, <<>>}

\* Texts a client may send as an id.
IdTexts == {k \o r : k \in KindTokens, r \in RawTexts}

NoRaw == [kind |-> <<>>, value |-> NoValue]
NoId == <<"None">>
NotDecoded == [exc |-> "pending", kind |-> <<>>, value |-> NoValue]

CodecIdle == /\ raw = NoRaw
             /\ extId = NoId
             /\ decoded = NotDecoded

EncodeArtist ==
    /\ CodecIdle
    /\ \E name \in RawTexts :
        /\ raw' = [kind |-> artist, value |-> StrVal(name)]
        /\ extId' = get_artist_id(name)
        /\ decoded' = NotDecoded
        /\ UNCHANGED <<envVars, webVars, rangeVars>>

EncodePlaylist ==
    /\ CodecIdle
    /\ \E name \in RawTexts :
        /\ raw' = [kind |-> playlist, value |-> StrVal(name)]
        /\ extId' = get_playlist_id(name)
        /\ decoded' = NotDecoded
        /\ UNCHANGED <<envVars, webVars, rangeVars>>

EncodeAlbum ==
    /\ CodecIdle
    /\ \E n \in RawInts :
        /\ raw' = [kind |-> album, value |-> IntVal(n)]
        /\ extId' = get_album_id(n)
        /\ decoded' = NotDecoded
        /\ UNCHANGED <<envVars, webVars, rangeVars>>

EncodeItem ==
    /\ CodecIdle
    /\ \E n \in RawInts :
        /\ raw' = [kind |-> item, value |-> IntVal(n)]
        /\ extId' = get_item_id(n)
        /\ decoded' = NotDecoded
        /\ UNCHANGED <<envVars, webVars, rangeVars>>

\* A client supplies a text of its own as an id.
SupplyId ==
    /\ CodecIdle
    /\ \E value \in IdTexts :
        /\ raw' = NoRaw
        /\ extId' = value
        /\ decoded' = NotDecoded
        /\ UNCHANGED <<envVars, webVars, rangeVars>>

Decode ==
    /\ extId # NoId
    /\ decoded = NotDecoded
    /\ decoded' = get_type(extId)
    /\ UNCHANGED <<raw, extId, envVars, webVars, rangeVars>>

----------------------------------------------------------------------------
(* web.py: responses.                                                      *)

\* The protocol version the server stamps on every envelope.
SUBSONIC_API_VERSION == <<"1", ".", "1", "6", ".", "1">>

\* What goes back to the client.  kind "envelope": a serialized
\* bindings.Response (status, error, payload: the result fields set on it);
\* kind "file": file bytes (body, and contentRange = <<first, last, size>>
\* when the header is set); kind "fault": an exception no handler caught,
\* which Flask turns into a 500.
\* abort is the HTTP error the code aborted with (0: none) before a
\* registered error handler built the envelope; acceptRanges is the header
\* after_request adds; lastModified is the lastModified of the indexes
\* payload (-1: not set); songs are the ids of the items of the randomSongs
\* payload, in order; path is the file a file response was read from.
NoResp ==
    [kind |-> "none", http |-> 0, status |-> "none", error |-> "none",
     payload |-> {}, body |-> <<>>, contentRange |-> <<>>, exc |-> "none",
     abort |-> 0, acceptRanges |-> FALSE, lastModified |-> -1, songs |-> <<>>,
     path |-> ""]

Fault(e) == [NoResp EXCEPT !.kind = "fault", !.http = 500, !.exc = e]

\* The bytes of a file of the given size: the byte at offset i is i.
FileBytes(size) == [i \in 1..size |-> i - 1]

Min(a, b) == IF a <= b THEN a ELSE b

\* f.seek(pos); f.read(n) with n >= 0 on a file of the given size.
read(size, pos, n) == SubSeq(FileBytes(size), pos + 1, Min(pos + n, size))

\* A Range header that was not sent (request.headers.get('Range', None)).
NoHeader == <<"None">>

\* re.search('(\d+)-(\d*)', range_header): the leftmost run of digits that a
\* '-' follows, and the digits after that '-'.  <<start, stop>> are the
\* positions of the first group; NoMatch when the search returns None.
NoMatch == <<>>

DigitRunEnd(s, i) ==
    CHOOSE j \in i..Len(s) :
        /\ \A k \in i..j : IsDigit(s[k])
        /\ (j = Len(s) \/ ~IsDigit(s[j + 1]))

MatchStarts(s) ==
    {i \in 1..Len(s) :
        /\ IsDigit(s[i])
        /\ DigitRunEnd(s, i) < Len(s)
        /\ s[DigitRunEnd(s, i) + 1] = "-"}

re_search(s) ==
    IF MatchStarts(s) = {} THEN NoMatch
    ELSE LET i == CHOOSE m \in MatchStarts(s) : \A o \in MatchStarts(s) : m <= o
             j == DigitRunEnd(s, i)
             k == IF j + 2 <= Len(s) /\ IsDigit(s[j + 2])
                  THEN DigitRunEnd(s, j + 2) ELSE j + 1
         IN  <<SubSeq(s, i, j), SubSeq(s, j + 2, k)>>

\* send_file(path): the whole file, status 200.
send_file(size) ==
    [NoResp EXCEPT !.kind = "file", !.http = 200, !.body = FileBytes(size)]

\* The variant of the length computation that stops an open-ended range one
\* byte before the end of the file.
length_open_short(size, byte1, g) ==
    IF g[2] # <<>> THEN int(g[2]) - byte1 ELSE size - byte1 - 1

\* The length send_file_partial reads: size - byte1, or byte2 - byte1 when
\* the header names an end.
length_of(size, byte1, g) ==
    IF g[2] # <<>> THEN int(g[2]) - byte1 ELSE size - byte1

\* BinaryView.send_file_partial on a file of the given size.
send_file_partial(size, range_header, python3) ==
    IF range_header = NoHeader \/ range_header = <<>> THEN send_file(size)
    ELSE LET g == re_search(range_header)
         IN  IF g = NoMatch THEN Fault("AttributeError")
             ELSE LET byte1 == int(g[1])
                      length == length_of(size, byte1, g)
                      data == IF length >= 0 THEN read(size, byte1, length)
                              ELSE read(size, byte1, size)
                  IN  IF length < -1 /\ python3 THEN Fault("ValueError")
                      ELSE [NoResp EXCEPT
                               !.kind = "file", !.http = 206, !.body = data,
                               !.contentRange = <<byte1, byte1 + length - 1, size>>]

----------------------------------------------------------------------------
(* send_file_partial exercised on its own: a file size and a Range header  *)
(* are chosen, then the response is built.                                 *)

bytes_eq == <<"b", "y", "t", "e", "s", "=">>

\* The Range header texts a client sends: none, bytes=a-b, bytes=a- and
\* the suffix form bytes=-b.
RangeHeader(form, a, b) ==
    CASE form = "none" -> NoHeader
      [] form = "closed" -> bytes_eq \o str(a) \o <<"-">> \o str(b)
      [] form = "open" -> bytes_eq \o str(a) \o <<"-">>
      [] form = "suffix" -> bytes_eq \o <<"-">> \o str(b)

RangeForms == {"none", "closed", "open", "suffix"}

RangeInput(size, form, a, b) ==
    [size |-> size, form |-> form,
     a |-> IF form \in {"closed", "open"} THEN a ELSE 0,
     b |-> IF form \in {"closed", "suffix"} THEN b ELSE 0,
     header |-> RangeHeader(form, a, b)]

\* Every size up to MaxSize with every range whose ends are at most one past
\* it, and the two ranges on a 1000-byte file that the specification names.
RangeInputs ==
    {RangeInput(size, form, a, b) :
        size \in 0..MaxSize, form \in RangeForms,
        a \in 0..(MaxSize + 1), b \in 0..(MaxSize + 1)}
    \cup {RangeInput(1000, "closed", 100, 199), RangeInput(1000, "open", 900, 0),
          RangeInput(1000, "none", 0, 0)}

NoRangeInput == [size |-> 0, form |-> "idle", a |-> 0, b |-> 0, header |-> NoHeader]

RangeIdle == /\ rangeIn = NoRangeInput
             /\ rangeOut = NoResp

RangeRequest ==
    /\ rangeIn = NoRangeInput
    /\ \E in \in RangeInputs :
        /\ rangeIn' = in
        /\ rangeOut' = NoResp
        /\ UNCHANGED <<envVars, webVars, codecVars>>

RangeServe ==
    /\ rangeIn # NoRangeInput
    /\ rangeOut = NoResp
    /\ rangeOut' = send_file_partial(rangeIn.size, rangeIn.header, py3)
    /\ UNCHANGED <<rangeIn, envVars, webVars, codecVars>>

----------------------------------------------------------------------------
(* web.py: envelopes and the error-producing functions.                    *)

\* utils.create_subsonic_response(version, status): a fresh envelope; the
\* status defaults to ok.
create_subsonic_response(status) ==
    [NoResp EXCEPT !.kind = "envelope", !.http = 200, !.status = status]

\* The variant of create_error_response that sets the error and leaves the
\* status as it was.
create_error_response_status_kept(response, code) == [response EXCEPT !.error = code]

\* ApiBlueprint.create_error_response, and the functions that call it with
\* one of the codes of the errors module.
create_error_response(response, code) ==
    [response EXCEPT !.status = "failed", !.error = code]

unauthenticated(response) == create_error_response(response, "AUTHENTICATION_ERROR_CODE")

\* The variant of forbidden that leaves the envelope as it is.
forbidden_nothing(response) == response

forbidden(response) == create_error_response(response, "USER_NOT_AUTHORIZED_ERROR_CODE")
data_not_found(response) == create_error_response(response, "DATA_NOT_FOUND_ERROR_CODE")
required_parameter_missing(response) ==
    create_error_response(response, "REQUIRED_PARAMETER_ERROR_CODE")
client_upgrade(response) == create_error_response(response, "CLIENT_UPGRADE_ERROR_CODE")
server_upgrade(response) == create_error_response(response, "SERVER_UPGRADE_ERROR_CODE")

\* ResponseView(f).dispatch_request() for an f that only reports an error:
\* a fresh ok envelope, f applied to it, serialized.
ErrorEnvelope(code) == create_error_response(create_subsonic_response("ok"), code)

\* abort(code) in a hook or a route function: Flask hands the HTTPException
\* to the handler registered for it in _set_up_error_handlers (403:
\* unauthenticated, 404: data_not_found), which is a ResponseView; a code
\* with no handler registered goes out as Flask's own error page.
abort(code) ==
    CASE code = 403 -> [unauthenticated(create_subsonic_response("ok")) EXCEPT !.abort = 403]
      [] code = 404 -> [data_not_found(create_subsonic_response("ok")) EXCEPT !.abort = 404]
      [] OTHER -> [NoResp EXCEPT !.kind = "page", !.http = code, !.abort = code]

\* EntityNotFoundError raised in a route function: handled by data_not_found.
entity_not_found == data_not_found(create_subsonic_response("ok"))

\* Query arguments: a function from the names of the arguments sent to
\* their texts.
Has(args, name) == name \in DOMAIN args

----------------------------------------------------------------------------
(* web.py: the before_request hooks.                                       *)

\* The variant of check_version that lets a newer minor version through.
check_version_no_minor(args) ==
    IF ~Has(args, "v") THEN ErrorEnvelope("REQUIRED_PARAMETER_ERROR_CODE")
    ELSE LET client_texts == split(args["v"], ".")
             server_texts == split(SUBSONIC_API_VERSION, ".")
         IN  IF \E i \in 1..Len(client_texts) : ~IntParses(client_texts[i])
             THEN Fault("ValueError")
             ELSE IF int(client_texts[1]) > int(server_texts[1])
             THEN ErrorEnvelope("SERVER_UPGRADE_ERROR_CODE")
             ELSE IF int(client_texts[1]) < int(server_texts[1])
             THEN ErrorEnvelope("CLIENT_UPGRADE_ERROR_CODE")
             ELSE NoResp

\* The variant of check_version that also turns away a client whose minor
\* version is behind the server's.
check_version_minor_behind(args) ==
    IF ~Has(args, "v") THEN ErrorEnvelope("REQUIRED_PARAMETER_ERROR_CODE")
    ELSE LET client_texts == split(args["v"], ".")
             server_texts == split(SUBSONIC_API_VERSION, ".")
         IN  IF \E i \in 1..Len(client_texts) : ~IntParses(client_texts[i])
             THEN Fault("ValueError")
             ELSE IF int(client_texts[1]) > int(server_texts[1])
             THEN ErrorEnvelope("SERVER_UPGRADE_ERROR_CODE")
             ELSE IF int(client_texts[1]) < int(server_texts[1])
             THEN ErrorEnvelope("CLIENT_UPGRADE_ERROR_CODE")
             ELSE IF Len(client_texts) < 2 THEN Fault("IndexError")
             ELSE IF int(client_texts[2]) > int(server_texts[2])
             THEN ErrorEnvelope("SERVER_UPGRADE_ERROR_CODE")
             ELSE IF int(client_texts[2]) < int(server_texts[2])
             THEN ErrorEnvelope("CLIENT_UPGRADE_ERROR_CODE")
             ELSE NoResp

\* check_version.  NoResp stands for returning None: the request goes on.
check_version(args) ==
    IF ~Has(args, "v") THEN ErrorEnvelope("REQUIRED_PARAMETER_ERROR_CODE")
    ELSE LET client_texts == split(args["v"], ".")
             server_texts == split(SUBSONIC_API_VERSION, ".")
             client_version_parts == [i \in 1..Len(client_texts) |-> int(client_texts[i])]
             server_version_parts == [i \in 1..Len(server_texts) |-> int(server_texts[i])]
         IN  IF \E i \in 1..Len(client_texts) : ~IntParses(client_texts[i])
             THEN Fault("ValueError")
             ELSE IF client_version_parts[1] > server_version_parts[1]
             THEN ErrorEnvelope("SERVER_UPGRADE_ERROR_CODE")
             ELSE IF client_version_parts[1] < server_version_parts[1]
             THEN ErrorEnvelope("CLIENT_UPGRADE_ERROR_CODE")
             ELSE IF Len(client_version_parts) < 2 THEN Fault("IndexError")
             ELSE IF client_version_parts[2] > server_version_parts[2]
             THEN ErrorEnvelope("SERVER_UPGRADE_ERROR_CODE")
             ELSE NoResp

\* bytearray.fromhex(text): pairs of hexadecimal digits to bytes; NoBytes
\* where fromhex raises ValueError (an odd digit, a character that is no
\* hexadecimal digit).
HexDigits == <<"0", "1", "2", "3", "4", "5", "6", "7", "8", "9",
               "a", "b", "c", "d", "e", "f">>

IsHexDigit(c) == \E i \in 1..16 : HexDigits[i] = c

HexValue(c) == (CHOOSE i \in 1..16 : HexDigits[i] = c) - 1

NoBytes == <<-1>>

fromhex(text) ==
    IF Len(text) % 2 # 0 \/ \E i \in 1..Len(text) : ~IsHexDigit(text[i])
    THEN NoBytes
    ELSE [i \in 1..(Len(text) \div 2) |->
              16 * HexValue(text[2 * i - 1]) + HexValue(text[2 * i])]

\* bytes.decode(): the characters of the ASCII codes this model's texts
\* use; a byte of 128 or more that starts no well-formed UTF-8 sequence
\* raises UnicodeDecodeError (the only such bytes tried stand alone).
Letters == <<"a", "b", "c", "d", "e", "f", "g", "h", "i", "j", "k", "l", "m",
             "n", "o", "p", "q", "r", "s", "t", "u", "v", "w", "x", "y", "z">>

chr(code) ==
    IF code >= 97 /\ code <= 122 THEN Letters[code - 96]
    ELSE IF code >= 48 /\ code <= 57 THEN Digits[code - 47]
    ELSE IF code = 58 THEN ":"
    ELSE IF code = 45 THEN "-"
    ELSE "?"

Decodable(bytes) == \A i \in 1..Len(bytes) : bytes[i] < 128

decode(bytes) == [i \in 1..Len(bytes) |-> chr(bytes[i])]

\* hashlib.md5 of a text, as a hexadecimal digest.  The digest is kept
\* symbolic: a text that names the message digested, so two digests are
\* equal exactly when the messages are.
md5_hexdigest(message) == <<"md5(">> \o message \o <<")">>

enc == <<"e", "n", "c", ":">>

\* message.update(configs['password'] + salt); message.hexdigest()
expected_token(password, salt) == md5_hexdigest(password \o salt)

\* authenticate.  NoResp stands for returning None: the request goes on.
\* Under Python 3, hashlib's update raises TypeError when given a text.
authenticate(args, cfg, python3) ==
    IF ~Has(args, "u") THEN ErrorEnvelope("REQUIRED_PARAMETER_ERROR_CODE")
    ELSE IF args["u"] # cfg.username THEN abort(403)
    ELSE IF Has(args, "p")
    THEN LET sent == args["p"]
             hex == SubSeq(sent, 5, Len(sent))
         IN  IF startswith(sent, enc)
             THEN IF fromhex(hex) = NoBytes THEN Fault("ValueError")
                  ELSE IF ~Decodable(fromhex(hex)) THEN Fault("UnicodeDecodeError")
                  ELSE IF decode(fromhex(hex)) # cfg.password THEN abort(403)
                  ELSE NoResp
             ELSE IF sent # cfg.password THEN abort(403)
             ELSE NoResp
    ELSE IF Has(args, "t") /\ Has(args, "s")
    THEN IF python3 THEN Fault("TypeError")
         ELSE IF args["t"] # expected_token(cfg.password, args["s"]) THEN abort(403)
         ELSE NoResp
    ELSE ErrorEnvelope("REQUIRED_PARAMETER_ERROR_CODE")

\* The hooks registered in the other order.
before_request_funcs_swapped == <<"authenticate", "check_version">>

\* The hooks in the order _set_up_routes registers them, which is the order
\* Flask runs them in; the first one to return a response ends the request.
before_request_funcs == <<"check_version", "authenticate">>

----------------------------------------------------------------------------
(* The beets library behind BeetsModel, and the lookups models.py makes.   *)

\* A library: albums in the engine's native row order, items, the playlist
\* files in the configured directory, and the size of every file.  An empty
\* artpath is an album without art; album_id 0 is a singleton.
NoRow == [id |-> 0, albumartist |-> <<>>, artpath |-> "", album_id |-> 0, path |-> ""]

AlbumRow(id, albumartist, artpath) ==
    [NoRow EXCEPT !.id = id, !.albumartist = albumartist, !.artpath = artpath]

ItemRow(id, album_id, path) ==
    [NoRow EXCEPT !.id = id, !.album_id = album_id, !.path = path]

\* lib.get_item(id) and lib.get_album(id): the row whose id matches, or
\* NoRow (None).  The engine compares against an integer column, so an
\* integer matches its row and a text matches when it is a numeral of the id.
MatchesId(row, value) ==
    \/ value.t = "int" /\ value.n = row.id
    \/ value.t = "str" /\ IntParses(value.s) /\ int(value.s) = row.id

FirstMatch(rows, value) ==
    IF \E i \in 1..Len(rows) : MatchesId(rows[i], value)
    THEN rows[CHOOSE i \in 1..Len(rows) : MatchesId(rows[i], value)]
    ELSE NoRow

lib_get_item(library, value) == FirstMatch(library.items, value)

lib_get_album(library, value) == FirstMatch(library.albums, value)

\* BeetsModel._get_albums_from_artist: SELECT ... WHERE albumartist=?, in
\* row order.
RECURSIVE SelectSeq2(_, _)
SelectSeq2(rows, name) ==
    IF rows = <<>> THEN <<>>
    ELSE (IF Head(rows).albumartist = name THEN <<Head(rows)>> ELSE <<>>)
         \o SelectSeq2(Tail(rows), name)

_get_albums_from_artist(library, value) ==
    IF value.t = "str" THEN SelectSeq2(library.albums, value.s) ELSE <<>>

\* lib.albums('albumartist:NAME'): the engine's field query, which matches
\* the albums whose albumartist contains NAME.
Contains(text, part) ==
    \E i \in 1..(Len(text) - Len(part) + 1) : SubSeq(text, i, i + Len(part) - 1) = part

lib_albums_by_artist(library, name) ==
    {i \in 1..Len(library.albums) : Contains(library.albums[i].albumartist, name)}

\* What a BeetsModel method did: returned a value (exc = "none") or raised.
ModelReturn(value) == [exc |-> "none", value |-> value]
ModelRaise(e) == [exc |-> e, value |-> ""]

\* BeetsModel.get_last_modified: SELECT max(mtime) FROM items.
get_last_modified(library) ==
    CHOOSE t \in {library.mtime[i] : i \in 1..Len(library.mtime)} :
        \A i \in 1..Len(library.mtime) : library.mtime[i] <= t

\* BeetsModel._resolve_path(path): None (here "") for no path.
_resolve_path(path) == path

\* BeetsModel.get_song_location
get_song_location(library, id) ==
    LET beet_id == get_type(id)
    IN  IF beet_id.exc # "none" THEN ModelRaise(beet_id.exc)
        ELSE IF lib_get_item(library, beet_id.value) = NoRow THEN ModelRaise("ValueError")
        ELSE ModelReturn(_resolve_path(lib_get_item(library, beet_id.value).path))

\* BeetsModel.get_cover_art
get_cover_art(library, object_id) ==
    LET beet_id == get_type(object_id)
        location ==
            IF beet_id.kind = album
            THEN lib_get_album(library, beet_id.value).artpath
            ELSE IF beet_id.kind = artist
            THEN LET albums == SelectSeq(_get_albums_from_artist(library, beet_id.value),
                                         LAMBDA a : a.artpath # "")
                 IN  IF Len(albums) > 0 THEN albums[1].artpath ELSE ""
            ELSE IF beet_id.kind = item
            THEN LET it == lib_get_item(library, beet_id.value)
                 IN  IF it = NoRow \/ it.album_id = 0 THEN ""
                     ELSE lib_get_album(library, IntVal(it.album_id)).artpath
            ELSE ""
    IN  IF beet_id.exc # "none" THEN ModelRaise(beet_id.exc)
        ELSE ModelReturn(_resolve_path(location))

\* The exception (or "none") of the BeetsModel methods that fill an
\* envelope: get_music_directory, get_song, get_artist_mbid, get_album,
\* get_artist_with_albums.  A None row is used without a check, which
\* raises AttributeError.
get_music_directory(library, object_id) ==
    LET beet_id == get_type(object_id)
    IN  IF beet_id.exc # "none" THEN beet_id.exc
        ELSE IF beet_id.kind = album
        THEN IF lib_get_album(library, beet_id.value) = NoRow THEN "AttributeError" ELSE "none"
        ELSE IF beet_id.kind = artist THEN "none"
        ELSE IF lib_get_item(library, beet_id.value) = NoRow THEN "AttributeError" ELSE "none"

get_song(library, item_id) ==
    LET beet_id == get_type(item_id)
    IN  IF beet_id.exc # "none" THEN beet_id.exc
        ELSE IF beet_id.kind # item THEN "ValueError"
        ELSE IF lib_get_item(library, beet_id.value) = NoRow THEN "AttributeError"
        ELSE "none"

get_album(library, album_id) ==
    LET beet_id == get_type(album_id)
    IN  IF beet_id.exc # "none" THEN beet_id.exc
        ELSE IF beet_id.kind # album THEN "ValueError"
        ELSE IF lib_get_album(library, beet_id.value) = NoRow THEN "AttributeError"
        ELSE "none"

get_artist_with_albums(library, artist_id) ==
    LET beet_id == get_type(artist_id)
    IN  IF beet_id.exc # "none" THEN beet_id.exc
        ELSE IF beet_id.kind # artist THEN "ValueError"
        ELSE IF lib_albums_by_artist(library, beet_id.value.s) = {} THEN "EntityNotFoundError"
        ELSE "none"

get_artist_mbid(library, artist_id) ==
    LET beet_id == get_type(artist_id)
    IN  IF beet_id.exc # "none" THEN beet_id.exc
        ELSE IF beet_id.kind # artist THEN "ValueError"
        ELSE IF Len(_get_albums_from_artist(library, beet_id.value)) < 1
        THEN "EntityNotFoundError"
        ELSE "none"

\* BeetsModel.get_playlist and _get_playlist.  The file name is the decoded
\* value whatever its kind; os.path.join refuses an integer.  A missing
\* file makes os.path.getmtime raise OSError, which the except IOError of
\* _get_playlist catches under Python 3 (where IOError is OSError),
\* returning None, and lets through under Python 2.  "None" stands for the
\* None returned.
get_playlist(library, playlist_id, python3) ==
    LET beet_id == get_type(playlist_id)
    IN  IF beet_id.exc # "none" THEN beet_id.exc
        ELSE IF beet_id.value.t = "int"
        THEN (IF python3 THEN "TypeError" ELSE "AttributeError")
        ELSE IF beet_id.value.s \in library.playlists THEN "none"
        ELSE IF python3 THEN "None"
        ELSE "OSError"

----------------------------------------------------------------------------
(* web.py: the route functions registered in _set_up_routes.               *)

\* What a route function did with the envelope it was given: ran names the
\* function whose body ran ("none" when require_arguments answered instead),
\* calls the BeetsModel methods it called, exc the exception it raised
\* ("none", or "abort404" for abort(404)), returned what it returned
\* ("None", "response" for the envelope itself, "path" for a file path).
RouteOut(ran, calls, exc, response, returned, location) ==
    [ran |-> ran, calls |-> calls, exc |-> exc, response |-> response,
     returned |-> returned, location |-> location]

\* response.<field> = <value from the model>
SetField(response, field) == [response EXCEPT !.payload = @ \cup {field}]

\* A route function of the form response.<field> = model.<method>(...),
\* where the method raised exc or returned.
ModelFill(name, method, exc, response, field) ==
    IF exc = "none"
    THEN RouteOut(name, {method}, "none", SetField(response, field), "None", "")
    ELSE RouteOut(name, {method}, exc, response, "None", "")

\* The variant of require_arguments that checks nothing.
require_arguments_unchecked(arguments, args, response, f) == f

\* ApiBlueprint.require_arguments(arguments)(f)(response): f is what the
\* wrapped function does with the response.
require_arguments(arguments, args, response, f) ==
    IF \E argument \in arguments : ~Has(args, argument)
    THEN RouteOut("none", {}, "none", required_parameter_missing(response), "response", "")
    ELSE f

ping(response) == RouteOut("ping", {}, "none", response, "None", "")

\* The query types get_album_list2 accepts.
QueryTypes ==
    {<<"r", "a", "n", "d", "o", "m">>,
     <<"n", "e", "w", "e", "s", "t">>,
     <<"f", "r", "e", "q", "u", "e", "n", "t">>,
     <<"r", "e", "c", "e", "n", "t">>,
     <<"s", "t", "a", "r", "r", "e", "d">>,
     <<"a", "l", "p", "h", "a", "b", "e", "t", "i", "c", "a", "l", "B", "y", "N", "a", "m", "e">>,
     <<"a", "l", "p", "h", "a", "b", "e", "t", "i", "c", "a", "l", "B", "y", "A", "r", "t", "i", "s", "t">>,
     <<"b", "y", "Y", "e", "a", "r">>,
     <<"b", "y", "G", "e", "n", "r", "e">>}

Get(args, name, default) == IF Has(args, name) THEN args[name] ELSE default

\* request.args.get(name): the text sent, or None.
NoneText == <<"None">>

Arg(args, name) == Get(args, name, NoneText)

\* get_indexes.  request.args.get('ifModifiedSince', 0) is the text sent,
\* or the integer 0; last_modified <= if_modified_since compares the number
\* with it as it is.  Against a text, Python 2 orders any number before any
\* text, so the comparison holds whatever the text says, and Python 3
\* raises TypeError.
route_get_indexes(args, response, library, python3) ==
    LET last_modified == get_last_modified(library)
        stop == RouteOut("get_indexes", {"get_last_modified"}, "none", response, "None", "")
    IN  IF Has(args, "ifModifiedSince")
        THEN IF python3
             THEN RouteOut("get_indexes", {"get_last_modified"}, "TypeError", response,
                           "None", "")
             ELSE stop
        ELSE IF last_modified <= 0 THEN stop
        ELSE RouteOut("get_indexes",
                      {"get_last_modified", "get_album_artists", "get_singletons"}, "none",
                      [SetField(response, "indexes") EXCEPT !.lastModified = last_modified],
                      "None", "")

\* The variant of the clamp without the upper limit.
clamp_size_no_upper(size) == IF size < 0 THEN 0 ELSE size

\* get_random_songs: the size is brought into 0..500.
clamp_size(size) == IF size < 0 THEN 0 ELSE IF size > 500 THEN 500 ELSE size

\* BeetsModel.get_random_songs up to the sampling: the items of
\* self.lib.items(query), as positions in row order.  The query holds
\* genre:GENRE when a genre is given and year:FROM..TO when either year is;
\* an argument not sent is None, here NoneText.  A music folder other than
\* the one folder leaves no songs.
random_songs_result(library, genre, from_year, to_year, music_folder_id) ==
    LET given(t) == t # NoneText /\ t # <<>>
        in_genre(i) == given(genre) => Contains(library.genre[i], genre)
        in_years(i) ==
            /\ given(from_year) => library.year[i] >= int(from_year)
            /\ given(to_year) => library.year[i] <= int(to_year)
        matching == {i \in 1..Len(library.items) : in_genre(i) /\ in_years(i)}
    IN  IF given(music_folder_id) /\ music_folder_id # str(1) THEN <<>>
        ELSE SetToSortedSeq(matching)

\* random.sample(population, k): every sequence of k elements taken at
\* distinct positions of the population.
random_sample(population, k) ==
    {[j \in 1..k |-> population[pick[j]]] :
        pick \in {f \in [1..k -> 1..Len(population)] :
                     \A a, b \in 1..k : a # b => f[a] # f[b]}}

\* get_album_list2.  BeetsModel defines no get_album_list2, so the call at
\* the end raises AttributeError.
route_get_album_list2(args, response) ==
    LET bad == RouteOut("get_album_list2", {}, "none",
                        required_parameter_missing(response), "response", "")
    IN  IF Arg(args, "type") \notin QueryTypes THEN bad
        ELSE IF Arg(args, "type") = <<"b", "y", "Y", "e", "a", "r">>
                /\ (~Has(args, "fromYear") \/ ~Has(args, "toYear")) THEN bad
        ELSE IF Arg(args, "type") = <<"b", "y", "G", "e", "n", "r", "e">> /\ ~Has(args, "genre") THEN bad
        ELSE IF ~IntParses(Get(args, "size", <<"1", "0">>))
                \/ ~IntParses(Get(args, "offset", <<"0">>))
        THEN RouteOut("get_album_list2", {}, "ValueError", response, "None", "")
        ELSE RouteOut("get_album_list2", {}, "AttributeError", response, "None", "")

route_get_user(args, response, cfg) ==
    IF Arg(args, "username") # cfg.username
    THEN RouteOut("get_user", {}, "abort404", response, "None", "")
    ELSE RouteOut("get_user", {"get_user"}, "none", SetField(response, "user"), "None", "")

route_get_playlist(args, response, library, python3) ==
    LET e == get_playlist(library, Arg(args, "id"), python3)
    IN  IF e = "None"
        THEN RouteOut("get_playlist", {"get_playlist"}, "none", response, "None", "")
        ELSE IF e = "OSError"
        THEN RouteOut("get_playlist", {"get_playlist"}, "abort404", response, "None", "")
        ELSE ModelFill("get_playlist", "get_playlist", e, response, "playlist")

\* get_cover_art: the exception of get_type is not caught here.
route_get_cover_art(args, error_response, library) ==
    LET location == get_cover_art(library, Arg(args, "id"))
    IN  IF location.exc # "none"
        THEN RouteOut("get_cover_art", {"get_cover_art"}, location.exc, error_response, "None", "")
        ELSE IF location.value = ""
        THEN RouteOut("get_cover_art", {"get_cover_art"}, "none",
                      data_not_found(error_response), "response", "")
        ELSE RouteOut("get_cover_art", {"get_cover_art"}, "none", error_response,
                      "path", location.value)

\* stream and download: the same body, which catches ValueError.
route_stream(name, args, error_response, library) ==
    LET location == get_song_location(library, Arg(args, "id"))
    IN  IF location.exc = "ValueError"
        THEN RouteOut(name, {"get_song_location"}, "none",
                      data_not_found(error_response), "response", "")
        ELSE IF location.exc # "none"
        THEN RouteOut(name, {"get_song_location"}, location.exc, error_response, "None", "")
        ELSE RouteOut(name, {"get_song_location"}, "none", error_response,
                      "path", location.value)

\* The routes _set_up_routes hands to add_common_errors with self.forbidden.
rule_map ==
    {"createUser", "updateUser", "deleteUser", "changePassword", "createPlaylist",
     "updatePlaylist", "deletePlaylist", "star", "unstar", "setRating", "scrobble",
     "createShare", "updateShare", "deleteShare", "refreshPodcasts",
     "createPodcastChannel", "deletePodcastChannel", "deletePodcastEpisode",
     "downloadPodcastEpisode", "jukeboxControl", "addChatMessage", "createBookmark",
     "deleteBookmark"}

\* ApiBlueprint.add_common_errors: each of the routes is a ResponseView
\* whose function is generate_response_func, here self.forbidden.
add_common_errors(response) == RouteOut("forbidden", {}, "none", forbidden(response), "None", "")

\* The routes served by a ResponseView and those served by a BinaryView.
ResponseRoutes ==
    {"ping", "getIndexes", "getAlbumList2", "getUser", "getMusicDirectory", "getSong",
     "getArtistInfo", "getArtistInfo2", "getPlaylist", "getAlbum", "getArtist"}

BinaryRoutes == {"getCoverArt", "stream", "download"}

\* The arguments each route declares with require_arguments.
RequiredArguments(route) ==
    CASE route \in {"ping", "getIndexes"} \cup rule_map -> {}
      [] route = "getAlbumList2" -> {"type"}
      [] route = "getUser" -> {"username"}
      [] OTHER -> {"id"}

\* The function registered for a route, applied to the envelope.
generate_response_func(route, args, response, cfg, library, python3) ==
    LET id == Arg(args, "id")
        f == CASE route = "ping" -> ping(response)
               [] route = "getIndexes" -> route_get_indexes(args, response, library, python3)
               [] route \in rule_map -> add_common_errors(response)
               [] route = "getAlbumList2" -> route_get_album_list2(args, response)
               [] route = "getUser" -> route_get_user(args, response, cfg)
               [] route = "getMusicDirectory" ->
                    ModelFill("get_music_directory", "get_music_directory",
                              get_music_directory(library, id), response, "directory")
               [] route = "getSong" ->
                    ModelFill("get_song", "get_song", get_song(library, id), response, "song")
               [] route = "getArtistInfo" ->
                    ModelFill("get_artist_info", "get_artist_mbid",
                              get_artist_mbid(library, id), response, "artistInfo")
               [] route = "getArtistInfo2" ->
                    ModelFill("get_artist_info2", "get_artist_mbid",
                              get_artist_mbid(library, id), response, "artistInfo2")
               [] route = "getPlaylist" -> route_get_playlist(args, response, library, python3)
               [] route = "getAlbum" ->
                    ModelFill("get_album", "get_album", get_album(library, id), response, "album")
               [] route = "getArtist" ->
                    ModelFill("get_artist", "get_artist_with_albums",
                              get_artist_with_albums(library, id), response, "artist")
    IN  require_arguments(RequiredArguments(route), args, response, f)

location_fn(route, args, error_response, library) ==
    LET f == CASE route = "getCoverArt" -> route_get_cover_art(args, error_response, library)
               [] route = "stream" -> route_stream("stream", args, error_response, library)
               [] route = "download" -> route_stream("download", args, error_response, library)
    IN  require_arguments(RequiredArguments(route), args, error_response, f)

\* ResponseView.dispatch_request: the route function is applied to a fresh
\* ok envelope, which is then serialized.  An exception leaves the view:
\* EntityNotFoundError and abort(404) reach their registered handlers, any
\* other is not handled.
ResponseView(out) ==
    CASE out.exc = "none" -> out.response
      [] out.exc = "EntityNotFoundError" -> entity_not_found
      [] out.exc = "abort404" -> abort(404)
      [] OTHER -> Fault(out.exc)

\* BinaryView.dispatch_request: the location function is applied to a fresh
\* failed envelope; what it returns is that envelope (an error) or the path
\* of the file to send.
BinaryView(out, library, range_header, python3) ==
    CASE out.exc = "EntityNotFoundError" -> entity_not_found
      [] out.exc = "abort404" -> abort(404)
      [] out.exc # "none" -> Fault(out.exc)
      [] out.returned = "response" -> out.response
      [] OTHER -> LET rv == send_file_partial(library.sizes[out.location], range_header,
                                              python3)
                  IN  IF rv.kind = "file" THEN [rv EXCEPT !.path = out.location] ELSE rv

----------------------------------------------------------------------------
(* The configurations, libraries and requests tried.                       *)

\* The configured account: one user name, and a password that is a plain
\* word or happens to begin with the characters enc: itself.
Usernames == {<<"u">>}

Passwords == {<<"a", "b">>, <<"e", "n", "c", ":", "6", "2">>}

Configs == [username : Usernames, password : Passwords]

\* Two libraries over the same files.  In both, artist a has two albums of
\* which one has art (first in row order in one library, last in the
\* other), artist b has one album without art, the artist named a:b has
\* one album with art, item 5 is a singleton and
\* the playlist directory holds the file p.  mtime is the modification
\* time of each item, in row order, and genre and year its genre and year.
Sizes == [path \in {"/m/s1", "/m/s2", "/m/s5", "/m/c1", "/m/c2", "/m/c4"} |->
             CASE path = "/m/s1" -> 4 [] path = "/m/s2" -> 3 [] path = "/m/s5" -> 1
               [] path = "/m/c1" -> 2 [] path = "/m/c2" -> 0 [] path = "/m/c4" -> 1]

Items == <<ItemRow(1, 1, "/m/s1"), ItemRow(2, 2, "/m/s2"), ItemRow(5, 0, "/m/s5")>>

Genres == <<<<"r">>, <<"j">>, <<"r">>>>

Years == <<1, 2, 3>>

Libraries ==
    {[albums |-> <<AlbumRow(1, <<"a">>, "/m/c1"), AlbumRow(2, <<"a">>, ""), AlbumRow(3, <<"b">>, ""),
                  AlbumRow(4, <<"a", ":", "b">>, "/m/c4")>>,
      items |-> Items, mtime |-> <<3, 7, 5>>, genre |-> Genres, year |-> Years, playlists |-> {<<"p">>}, sizes |-> Sizes],
     [albums |-> <<AlbumRow(1, <<"a">>, ""), AlbumRow(2, <<"a">>, "/m/c2"), AlbumRow(3, <<"b">>, ""),
                  AlbumRow(4, <<"a", ":", "b">>, "/m/c4")>>,
      items |-> Items, mtime |-> <<4, 2, 1>>, genre |-> Genres, year |-> Years, playlists |-> {<<"p">>}, sizes |-> Sizes]}

\* binascii-style hexadecimal form of a text: what a client puts after enc:.
ord(c) == CHOOSE code \in 0..127 : chr(code) = c

RECURSIVE hexlify(_)
hexlify(text) ==
    IF text = <<>> THEN <<>>
    ELSE <<HexDigits[(ord(Head(text)) \div 16) + 1], HexDigits[(ord(Head(text)) % 16) + 1]>>
         \o hexlify(Tail(text))

\* The text of a client version.
VersionText(major, minor) == str(major) \o <<".">> \o str(minor)

VersionText3(major, minor, patch) == VersionText(major, minor) \o <<".">> \o str(patch)

Args0 == <<>>

\* The v argument of the requests that exercise the hooks: absent, versions
\* on both sides of the server's, a version without a minor number and one
\* that is no number.
GateVersionArgs ==
    {Args0} \cup
    {"v" :> t : t \in {VersionText3(1, 16, 1), VersionText(1, 16), VersionText3(1, 15, 0),
                       VersionText3(1, 17, 0), VersionText3(2, 0, 0), VersionText3(0, 9, 0),
                       VersionText3(1, 9, 0), <<"1">>, <<"1", ".", "x">>}}

UserArgs == {Args0} \cup {"u" :> t : t \in Usernames \cup {<<"x">>}}

\* The credential arguments tried: plain passwords, enc: forms (well formed,
\* odd, not hexadecimal, not decodable), salted tokens (right, for another
\* password, digested in the other order), half a token pair, and a
\* password sent together with a token pair.
Salt == <<"c">>

PlainPasswords == Passwords \cup {<<"b">>}

TokenPairs ==
    {("s" :> Salt) @@ ("t" :> t) :
        t \in {expected_token(pw, Salt) : pw \in Passwords} \cup {md5_hexdigest(Salt \o <<"a", "b">>)}}

CredArgs ==
    {Args0}
    \cup {"p" :> pw : pw \in PlainPasswords}
    \cup {"p" :> (enc \o hexlify(pw)) : pw \in Passwords}
    \cup {"p" :> (enc \o h) : h \in {<<"6">>, <<"z", "z">>, <<"f", "f">>}}
    \cup TokenPairs
    \cup {"s" :> Salt, "t" :> expected_token(<<"a", "b">>, Salt)}
    \cup {("p" :> <<"b">>) @@ tp : tp \in TokenPairs}
    \cup {("p" :> pw) @@ ("s" :> Salt) @@ ("t" :> <<"b">>) : pw \in Passwords}

\* The ids tried: of every kind, naming rows that exist and rows that do
\* not, and malformed in each way get_type can meet.
IdTextsTried ==
    {get_item_id(1), get_item_id(5), get_item_id(9),
     get_album_id(1), get_album_id(2), get_album_id(9),
     get_artist_id(<<"a">>), get_artist_id(<<"b">>), get_artist_id(<<"z">>),
     get_artist_id(<<"a", ":", "b">>),
     get_playlist_id(<<"p">>), get_playlist_id(<<"z">>),
     <<"a">>, <<"f", "o", "o", ":", "1">>, <<"a", "l", "b", "u", "m", ":", "a">>, <<"i", "t", "e", "m", ":">>, <<"a", "l", "b", "u", "m", ":", "1", ":", "a">>}

IdArgs == {Args0} \cup {"id" :> t : t \in IdTextsTried}

\* The ifModifiedSince values tried: below, at and above the newest mtime
\* of either library.
IfModifiedSinceTried == {0, 2, 4, 6, 7, 9}

\* The arguments tried on getRandomSongs: sizes below, inside and above the
\* limits and one that is no number, with each filter.
RandomSizesTried == {str(n) : n \in {-1, 0, 1, 2, 5, 500, 501}} \cup {<<"x">>}

RandomFiltersTried ==
    {Args0, "genre" :> <<"r">>, "genre" :> <<"z">>, "fromYear" :> <<"2">>,
     "toYear" :> <<"2">>, ("fromYear" :> <<"2">>) @@ ("toYear" :> <<"2">>),
     "musicFolderId" :> <<"1">>, "musicFolderId" :> <<"2">>}

RandomArgs ==
    {s @@ f : s \in {Args0} \cup {"size" :> t : t \in RandomSizesTried},
              f \in RandomFiltersTried}

\* The arguments tried for each route beyond v, u and the credentials.
RouteArgs(route) ==
    CASE route = "ping" -> {Args0}
      [] route = "getRandomSongs" -> RandomArgs
      [] route \in rule_map ->
            {Args0, "id" :> get_item_id(1), "username" :> <<"u">>,
             ("id" :> get_playlist_id(<<"p">>)) @@ ("name" :> <<"a">>)}
      [] route = "getIndexes" ->
            {Args0} \cup {"ifModifiedSince" :> str(t) : t \in IfModifiedSinceTried}
      [] route = "getUser" -> {Args0} \cup {"username" :> t : t \in Usernames \cup {<<"x">>}}
      [] route = "getAlbumList2" ->
            {Args0} \cup
            {("type" :> t) @@ extra :
                t \in {<<"r", "a", "n", "d", "o", "m">>, <<"b", "y", "Y", "e", "a", "r">>, <<"b", "y", "G", "e", "n", "r", "e">>, <<"b", "o", "g", "u", "s">>},
                extra \in {Args0, ("fromYear" :> <<"1">>) @@ ("toYear" :> <<"1">>),
                           "genre" :> <<"a">>, "size" :> <<"x">>}}
      [] OTHER -> IdArgs

\* The Range headers tried on the binary routes.
RangeHeadersTried ==
    {RangeHeader("none", 0, 0), RangeHeader("closed", 0, 1), RangeHeader("closed", 1, 1),
     RangeHeader("closed", 1, 5), RangeHeader("open", 1, 0), RangeHeader("open", 5, 0),
     RangeHeader("suffix", 0, 1)}

Request(route, args, range_header) == [route |-> route, args |-> args, range |-> range_header]

\* Requests that exercise the hooks: every version, user and credential
\* argument, on one route of each view.
GateRequests ==
    {Request(route, v @@ u @@ c @@ ("id" :> get_item_id(1)), NoHeader) :
        route \in {"ping", "stream"}, v \in GateVersionArgs, u \in UserArgs, c \in CredArgs}

\* Requests that exercise the routes: every route with each of its
\* arguments, sent with a compatible version, the configured user name and
\* a credential of each form.
RouteCredArgs ==
    {"p" :> <<"a", "b">>, "p" :> (enc \o hexlify(<<"a", "b">>)), "p" :> (enc \o hexlify(<<"e", "n", "c", ":", "6", "2">>)),
     ("s" :> Salt) @@ ("t" :> expected_token(<<"a", "b">>, Salt))}

RouteBaseArgs ==
    {("v" :> v) @@ ("u" :> u) @@ c :
        v \in {VersionText3(1, 16, 1), VersionText3(1, 15, 0)},
        u \in Usernames, c \in RouteCredArgs}

RouteRequests ==
    UNION {{Request(route, base @@ a, h) :
                base \in RouteBaseArgs, a \in RouteArgs(route),
                h \in IF route \in BinaryRoutes THEN RangeHeadersTried ELSE {NoHeader}} :
           route \in ResponseRoutes \cup BinaryRoutes \cup {"getRandomSongs"} \cup rule_map}

Requests == GateRequests \cup RouteRequests

----------------------------------------------------------------------------
(* Flask's handling of one request: the before_request functions in        *)
(* order, then the view of the route, then after_request.                  *)

NoRequest == Request("none", Args0, NoHeader)

WebIdle ==
    /\ pc = "idle"
    /\ request = NoRequest
    /\ resp = NoResp
    /\ answeredBy = "none"
    /\ invoked = "none"
    /\ modelCalls = {}
    /\ raised = "none"
    /\ sizeArg = -1
    /\ hook = 1

EnvInit ==
    /\ py3 \in BOOLEAN
    /\ configs \in Configs
    /\ lib \in Libraries

\* A request arrives; nothing of the request before it is kept.
Start(r) ==
    /\ pc = "idle"
    /\ pc' = "before_request"
    /\ request' = r
    /\ resp' = NoResp
    /\ answeredBy' = "none"
    /\ invoked' = "none"
    /\ modelCalls' = {}
    /\ raised' = "none"
    /\ sizeArg' = -1
    /\ hook' = 1
    /\ UNCHANGED <<envVars, codecVars, rangeVars>>

Receive ==
    /\ pc = "idle"
    /\ \E r \in Requests : Start(r)

\* A before_request function returned rv: a response ends the request,
\* None passes it to the next function or to the view.
Hooked(name, rv) ==
    /\ IF rv # NoResp
       THEN /\ resp' = rv
            /\ answeredBy' = name
            /\ pc' = "after_request"
            /\ hook' = hook
       ELSE /\ resp' = resp
            /\ answeredBy' = answeredBy
            /\ pc' = IF hook = Len(before_request_funcs) THEN "view" ELSE pc
            /\ hook' = hook + 1
    /\ UNCHANGED <<request, invoked, modelCalls, raised, sizeArg, envVars, codecVars,
                   rangeVars>>

CheckVersion ==
    /\ pc = "before_request"
    /\ before_request_funcs[hook] = "check_version"
    /\ Hooked("check_version", check_version(request.args))

Authenticate ==
    /\ pc = "before_request"
    /\ before_request_funcs[hook] = "authenticate"
    /\ Hooked("authenticate", authenticate(request.args, configs, py3))

\* The view ran the route function and built the response.
Viewed(out, response) ==
    /\ resp' = response
    /\ invoked' = out.ran
    /\ modelCalls' = out.calls
    /\ raised' = out.exc
    /\ answeredBy' = IF out.ran = "none" THEN "require_arguments" ELSE "view"
    /\ pc' = "after_request"
    /\ UNCHANGED <<request, sizeArg, hook, envVars, codecVars, rangeVars>>

DispatchResponseView ==
    /\ pc = "view"
    /\ request.route \in ResponseRoutes \cup rule_map
    /\ LET out == generate_response_func(request.route, request.args,
                                         create_subsonic_response("ok"), configs, lib, py3)
       IN  Viewed(out, ResponseView(out))

DispatchBinaryView ==
    /\ pc = "view"
    /\ request.route \in BinaryRoutes
    /\ LET out == location_fn(request.route, request.args,
                              create_subsonic_response("failed"), lib)
       IN  Viewed(out, BinaryView(out, lib, request.range, py3))

\* The view of getRandomSongs: get_random_songs reads and clamps the size,
\* and BeetsModel.get_random_songs samples that many of the matching items,
\* or all of them when there are fewer.
DispatchRandomSongs ==
    /\ pc = "view"
    /\ request.route = "getRandomSongs"
    /\ LET args == request.args
           response == create_subsonic_response("ok")
           size_text == Get(args, "size", str(10))
       IN  IF ~IntParses(size_text)
           THEN /\ resp' = Fault("ValueError")
                /\ raised' = "ValueError"
                /\ modelCalls' = {}
                /\ sizeArg' = -1
           ELSE LET size == clamp_size(int(size_text))
                    result == random_songs_result(lib, Arg(args, "genre"),
                                                  Arg(args, "fromYear"), Arg(args, "toYear"),
                                                  Arg(args, "musicFolderId"))
                    number == Min(Len(result), size)
                IN  \E items \in random_sample(result, number) :
                        /\ resp' = [SetField(response, "randomSongs") EXCEPT
                                        !.songs = [j \in 1..Len(items) |-> lib.items[items[j]].id]]
                        /\ raised' = "none"
                        /\ modelCalls' = {"get_random_songs"}
                        /\ sizeArg' = size
    /\ invoked' = "get_random_songs"
    /\ answeredBy' = "view"
    /\ pc' = "after_request"
    /\ UNCHANGED <<request, hook, envVars, codecVars, rangeVars>>

\* after_request adds the Accept-Ranges header to the response; an
\* exception nothing handled has left no response to add it to.
AfterRequest ==
    /\ pc = "after_request"
    /\ resp' = IF resp.kind = "fault" THEN resp ELSE [resp EXCEPT !.acceptRanges = TRUE]
    /\ pc' = "done"
    /\ UNCHANGED <<request, answeredBy, invoked, modelCalls, raised, sizeArg, hook,
                   envVars, codecVars, rangeVars>>

\* The response has gone out; the view object and its envelope are dropped.
Done ==
    /\ pc = "done"
    /\ pc' = "idle"
    /\ request' = NoRequest
    /\ resp' = NoResp
    /\ answeredBy' = "none"
    /\ invoked' = "none"
    /\ modelCalls' = {}
    /\ raised' = "none"
    /\ sizeArg' = -1
    /\ hook' = 1
    /\ UNCHANGED <<envVars, codecVars, rangeVars>>

Init == EnvInit /\ WebIdle /\ CodecIdle /\ RangeIdle

Next ==
    \/ Receive
    \/ CheckVersion
    \/ Authenticate
    \/ DispatchResponseView
    \/ DispatchBinaryView
    \/ DispatchRandomSongs
    \/ AfterRequest
    \/ Done

Spec == Init /\ [][Next]_vars

----------------------------------------------------------------------------
(* The version check on its own range of client versions.                  *)

ClientVersions ==
    {VersionText(major, minor) : major \in 0..MaxMajor, minor \in 0..MaxMinor}
    \cup {VersionText3(major, minor, patch) :
             major \in 0..MaxMajor, minor \in 0..MaxMinor, patch \in 0..MaxPatch}

ReceiveVersion ==
    /\ pc = "idle"
    /\ \E v \in ClientVersions, u \in Usernames, pw \in Passwords :
        Start(Request("ping", ("v" :> v) @@ ("u" :> u) @@ ("p" :> (enc \o hexlify(pw))),
                      NoHeader))

NextVersion ==
    \/ ReceiveVersion
    \/ CheckVersion
    \/ Authenticate
    \/ DispatchResponseView
    \/ AfterRequest
    \/ Done

SpecVersion == Init /\ [][NextVersion]_vars

----------------------------------------------------------------------------
(* The codec and the byte-range computation on their own.                  *)

CodecReset ==
    /\ decoded # NotDecoded
    /\ raw' = NoRaw
    /\ extId' = NoId
    /\ decoded' = NotDecoded
    /\ UNCHANGED <<envVars, webVars, rangeVars>>

NextCodec ==
    \/ EncodeArtist
    \/ EncodePlaylist
    \/ EncodeAlbum
    \/ EncodeItem
    \/ SupplyId
    \/ Decode
    \/ CodecReset

SpecCodec == Init /\ [][NextCodec]_vars

RangeReset ==
    /\ rangeOut # NoResp
    /\ rangeIn' = NoRangeInput
    /\ rangeOut' = NoResp
    /\ UNCHANGED <<envVars, webVars, codecVars>>

NextRange ==
    \/ RangeRequest
    \/ RangeServe
    \/ RangeReset

SpecRange == Init /\ [][NextRange]_vars

----------------------------------------------------------------------------
(* Properties.                                                             *)

\* The numbers of the server's version, SUBSONIC_API_VERSION.
ServerMajor == 1
ServerMinor == 16

\* The request has been answered.
Answered == pc \in {"after_request", "done"}

\* The request got past both hooks.
PassedHooks ==
    \/ pc = "view"
    \/ Answered /\ answeredBy \in {"require_arguments", "view"}

\* The envelope of a failure with the given error.
FailedWith(code) ==
    /\ resp.kind = "envelope"
    /\ resp.status = "failed"
    /\ resp.error = code
    /\ resp.payload = {}

\* The v argument is the text of version major.minor or major.minor.patch.
IsVersion(args, major, minor) ==
    /\ Has(args, "v")
    /\ \/ args["v"] = VersionText(major, minor)
       \/ \E patch \in 0..MaxPatch : args["v"] = VersionText3(major, minor, patch)

\* The texts of version major.minor, with and without a patch number.
VersionTexts(major, minor) ==
    {VersionText(major, minor)} \cup {VersionText3(major, minor, patch) : patch \in 0..MaxPatch}

CompatibleTexts == UNION {VersionTexts(ServerMajor, minor) : minor \in 0..ServerMinor}

IncompatibleTexts ==
    UNION {VersionTexts(mm[1], mm[2]) :
              mm \in {p \in (0..MaxMajor) \X (0..MaxMinor) :
                         p[1] # ServerMajor \/ p[2] > ServerMinor}}

Compatible(args) == Has(args, "v") /\ args["v"] \in CompatibleTexts

Incompatible(args) == Has(args, "v") /\ args["v"] \in IncompatibleTexts

\* The credentials the claim calls good: the plain password, its enc: form,
\* or (no password sent) a salt with the token of password ++ salt.
CredentialsGood(args, cfg) ==
    \/ Has(args, "p") /\ args["p"] = cfg.password
    \/ Has(args, "p") /\ args["p"] = enc \o hexlify(cfg.password)
    \/ /\ ~Has(args, "p") /\ Has(args, "s") /\ Has(args, "t")
       /\ args["t"] = md5_hexdigest(cfg.password \o args["s"])

\* C1 (as claimed): for a request with the configured user name and a
\* compatible version, the plain password, its enc: hex form, or a salt
\* with the md5 token of password ++ salt authenticate, and every other
\* combination of p, s and t is rejected as 403 without the route function
\* being invoked.
C1_CredentialCheck ==
    (/\ pc \in {"view", "after_request", "done"}
     /\ Compatible(request.args)
     /\ Has(request.args, "u") /\ request.args["u"] = configs.username)
    => IF CredentialsGood(request.args, configs)
       THEN PassedHooks
       ELSE Answered /\ resp.abort = 403 /\ answeredBy = "authenticate" /\ invoked = "none"

\* C2: a request whose version is incompatible is answered by the version
\* check with an upgrade-required error whatever its credentials are; the
\* credential check never runs for it and no route function is invoked.
C2_VersionBeforeCredentials ==
    Incompatible(request.args) =>
        /\ pc # "view"
        /\ pc = "before_request" => hook = 1
        /\ invoked = "none"
        /\ answeredBy \in {"none", "check_version"}
        /\ Answered => \/ FailedWith("SERVER_UPGRADE_ERROR_CODE")
                       \/ FailedWith("CLIENT_UPGRADE_ERROR_CODE")

\* An incompatible request with a wrong user name and no credentials at
\* all was answered by the version check.
C2_Witness ==
    /\ pc = "done"
    /\ Incompatible(request.args)
    /\ Has(request.args, "u") /\ request.args["u"] # configs.username
    /\ ~Has(request.args, "p") /\ ~Has(request.args, "t")
    /\ answeredBy = "check_version"
    /\ FailedWith("SERVER_UPGRADE_ERROR_CODE")

\* The routes the claim lists as declaring required arguments.
RoutesWithArguments ==
    {"getAlbumList2", "getUser", "getMusicDirectory", "getSong", "getArtistInfo",
     "getArtistInfo2", "getPlaylist", "getAlbum", "getArtist", "getCoverArt",
     "stream", "download"}

\* C3: on a route that declares required arguments, a request that passed
\* the version and credential checks but lacks a declared argument gets a
\* failed envelope with the required-parameter-missing error; neither the
\* wrapped route function nor the BeetsModel is invoked.
C3_MissingArgument ==
    (/\ Answered
     /\ answeredBy \notin {"check_version", "authenticate"}
     /\ request.route \in RoutesWithArguments
     /\ \E a \in RequiredArguments(request.route) : ~Has(request.args, a))
    => /\ FailedWith("REQUIRED_PARAMETER_ERROR_CODE")
       /\ invoked = "none"
       /\ modelCalls = {}

C3_Witness ==
    /\ pc = "done"
    /\ request.route = "getCoverArt"
    /\ ~Has(request.args, "id")
    /\ answeredBy = "require_arguments"
    /\ FailedWith("REQUIRED_PARAMETER_ERROR_CODE")
    /\ invoked = "none"

\* The request's v argument is the given text.
ClientVersionIs(text) == Has(request.args, "v") /\ request.args["v"] = text

\* The version check has run on the request.
VersionChecked == pc # "idle" /\ (pc = "before_request" => hook > 1)

NoVersionError == answeredBy # "check_version"

VersionError(code) == Answered => answeredBy = "check_version" /\ FailedWith(code)

C5_ExamplesAsClaimed ==
    VersionChecked =>
        /\ ClientVersionIs(<<"1", ".", "1", "7", ".", "0">>) => VersionError("SERVER_UPGRADE_ERROR_CODE")
        /\ ClientVersionIs(<<"1", ".", "1", "5", ".", "0">>)
              => (Answered /\ answeredBy = "check_version"
                  /\ FailedWith("CLIENT_UPGRADE_ERROR_CODE"))
        /\ ClientVersionIs(<<"1", ".", "1", "6", ".", "0">>) => NoVersionError

\* C5 (amended): client 1.17.0 gets the server-upgrade error; clients
\* 1.15.0 and 1.16.0 get no version error.
C5_Examples ==
    VersionChecked =>
        /\ ClientVersionIs(<<"1", ".", "1", "7", ".", "0">>) => VersionError("SERVER_UPGRADE_ERROR_CODE")
        /\ ClientVersionIs(<<"1", ".", "1", "5", ".", "0">>) => NoVersionError
        /\ ClientVersionIs(<<"1", ".", "1", "6", ".", "0">>) => NoVersionError

C5_Witness ==
    /\ pc = "done"
    /\ ClientVersionIs(<<"1", ".", "1", "5", ".", "0">>)
    /\ answeredBy = "view"
    /\ resp.error = "none"

\* C6 (as claimed): decoding the id an encoder produced from a raw value
\* of its kind (any integer for album and item, any text for artist and
\* playlist, texts containing ':' included) returns exactly that kind and
\* that raw value.
C6_RoundTrip ==
    (raw # NoRaw /\ decoded # NotDecoded) => decoded = Returned(raw.kind, raw.value)

HasColon(text) == \E i \in 1..Len(text) : text[i] = ":"

\* The position of the first ':' of a text that has one.
FirstColon(text) ==
    CHOOSE i \in 1..Len(text) : text[i] = ":" /\ \A j \in 1..(i - 1) : text[j] # ":"

\* The part of an id before its first ':' and the part after it.
KindPart(text) == SubSeq(text, 1, FirstColon(text) - 1)

RawPart(text) == SubSeq(text, FirstColon(text) + 1, Len(text))

\* A text that reads as an integer: digits with an optional sign.
Numeric(text) ==
    LET body == IF text # <<>> /\ text[1] \in {"-", "+"} THEN Tail(text) ELSE text
    IN  body # <<>> /\ \A i \in 1..Len(body) : IsDigit(body[i])

\* An id with no ':', with an unknown kind before the ':', or of kind
\* album or item with a raw part that is not numeric.
Malformed(text) ==
    \/ ~HasColon(text)
    \/ HasColon(text) /\ KindPart(text) \notin BeetIdType
    \/ HasColon(text) /\ KindPart(text) \in {album, item} /\ ~Numeric(RawPart(text))

\* C7 (as claimed): get_type fails with ValueError on every text without
\* a ':', on every text whose part before the ':' is not one of the four
\* kinds, and on every album or item id whose raw part is not numeric; it
\* never returns a (kind, value) pair for such a text.
C7_MalformedRejected ==
    (extId # NoId /\ decoded # NotDecoded /\ Malformed(extId))
    => decoded = Raised("ValueError")

\* The bytes of the file at offsets from through to.
BytesAt(from, to) == [i \in 1..(to - from + 1) |-> from + i - 1]

RangeServed == rangeIn # NoRangeInput /\ rangeOut # NoResp

\* C8 (as claimed): for Range: bytes=a-b with a <= b < size the response
\* has status 206, its body is the b-a+1 bytes at offsets a through b and
\* its Content-Range is bytes a-b/size.
C8_ClosedRange ==
    (/\ RangeServed
     /\ rangeIn.form = "closed"
     /\ rangeIn.a <= rangeIn.b /\ rangeIn.b < rangeIn.size)
    => /\ rangeOut.kind = "file"
       /\ rangeOut.http = 206
       /\ rangeOut.body = BytesAt(rangeIn.a, rangeIn.b)
       /\ Len(rangeOut.body) = rangeIn.b - rangeIn.a + 1
       /\ rangeOut.contentRange = <<rangeIn.a, rangeIn.b, rangeIn.size>>

\* C9: for Range: bytes=a- with a < size the response has status 206, its
\* body is the size-a bytes at offsets a through size-1 and its
\* Content-Range is bytes a-(size-1)/size; without a Range header the
\* whole file is served with status 200 and no Content-Range.
C9_OpenRange ==
    /\ (RangeServed /\ rangeIn.form = "open" /\ rangeIn.a < rangeIn.size)
       => /\ rangeOut.kind = "file"
          /\ rangeOut.http = 206
          /\ rangeOut.body = BytesAt(rangeIn.a, rangeIn.size - 1)
          /\ Len(rangeOut.body) = rangeIn.size - rangeIn.a
          /\ rangeOut.contentRange = <<rangeIn.a, rangeIn.size - 1, rangeIn.size>>
    /\ (RangeServed /\ rangeIn.form = "none")
       => /\ rangeOut.kind = "file"
          /\ rangeOut.http = 200
          /\ rangeOut.body = FileBytes(rangeIn.size)
          /\ rangeOut.contentRange = <<>>

\* bytes=900- on a file of 1000 bytes was served as bytes 900-999/1000.
C9_Witness ==
    /\ rangeIn.form = "open" /\ rangeIn.size = 1000 /\ rangeIn.a = 900
    /\ rangeOut.http = 206
    /\ Len(rangeOut.body) = 100
    /\ rangeOut.contentRange = <<900, 999, 1000>>

\* The id of a request to a binary route names no file: it is malformed,
\* or names a track that is not in the library, or names an album that is
\* not in the library or has no art.
Unresolvable(route, id, library) ==
    \/ Malformed(id)
    \/ /\ route \in {"stream", "download"}
       /\ HasColon(id) /\ KindPart(id) = item /\ Numeric(RawPart(id))
       /\ \A i \in 1..Len(library.items) : library.items[i].id # int(RawPart(id))
    \/ /\ route = "getCoverArt"
       /\ HasColon(id) /\ KindPart(id) = album /\ Numeric(RawPart(id))
       /\ \A i \in 1..Len(library.albums) :
             library.albums[i].id = int(RawPart(id)) => library.albums[i].artpath = ""

\* C10 (as claimed): on getCoverArt, stream and download an authenticated
\* request whose id cannot be resolved to a file, because no matching
\* record or art exists or because the id is malformed, is answered with
\* the failed envelope carrying the data-not-found error, not a file body.
C10_UnresolvedId ==
    (/\ Answered
     /\ answeredBy \notin {"check_version", "authenticate"}
     /\ request.route \in {"getCoverArt", "stream", "download"}
     /\ Has(request.args, "id")
     /\ Unresolvable(request.route, request.args["id"], lib))
    => FailedWith("DATA_NOT_FOUND_ERROR_CODE")

\* The kind each direct lookup expects of its id.
ExpectedKind(route) ==
    CASE route = "getAlbum" -> album
      [] route = "getSong" -> item
      [] route = "getArtist" -> artist

\* The id, of the kind the lookup expects, names no record of the library:
\* no album or track with that number, no album by that artist.
NamesNoRecord(route, id, library) ==
    CASE route = "getAlbum" ->
            \A i \in 1..Len(library.albums) : library.albums[i].id # int(RawPart(id))
      [] route = "getSong" ->
            \A i \in 1..Len(library.items) : library.items[i].id # int(RawPart(id))
      [] route = "getArtist" ->
            \A i \in 1..Len(library.albums) : library.albums[i].albumartist # RawPart(id)

\* The lookup of getAlbum, getSong or getArtist ran on a well-formed id.
LookupRan ==
    /\ Answered
    /\ request.route \in {"getAlbum", "getSong", "getArtist"}
    /\ invoked # "none"
    /\ Has(request.args, "id")
    /\ ~Malformed(request.args["id"])

\* C11 (as claimed): get_album, get_song and get_artist_with_albums fail
\* with the validation error (ValueError) on a well-formed id of the wrong
\* kind, and with EntityNotFoundError on an id of the right kind that names
\* no record: an absent album, an absent track, an artist with no albums.
C11_LookupFailures ==
    LookupRan =>
        IF KindPart(request.args["id"]) # ExpectedKind(request.route)
        THEN raised = "ValueError"
        ELSE NamesNoRecord(request.route, request.args["id"], lib)
             => raised = "EntityNotFoundError"

\* The envelope endpoints that take an id.
IdEnvelopeRoutes ==
    {"getMusicDirectory", "getSong", "getAlbum", "getArtist", "getArtistInfo",
     "getArtistInfo2", "getPlaylist"}

\* A failed envelope carrying some protocol error.
FailedEnvelope ==
    /\ resp.kind = "envelope"
    /\ resp.status = "failed"
    /\ resp.error # "none"
    /\ resp.payload = {}

\* C12 (as claimed): on every envelope endpoint that takes an id, an error
\* the BeetsModel raises (malformed id, wrong kind, record not found) is
\* answered with a failed envelope carrying a protocol error; none leaves
\* the request as an unhandled exception.
C12_AdapterErrorsMapped ==
    (/\ Answered
     /\ request.route \in IdEnvelopeRoutes
     /\ modelCalls # {}
     /\ raised \notin {"none", "abort404"})
    => (FailedEnvelope /\ resp.kind # "fault" /\ resp.exc = "none")

\* The newest modification time of the tracks of the library.
Watermark(library) ==
    CHOOSE t \in {library.mtime[i] : i \in 1..Len(library.mtime)} :
        \A i \in 1..Len(library.mtime) : library.mtime[i] <= t

\* C13 (as claimed): getIndexes with an ifModifiedSince at or above the
\* newest track mtime answers an ok envelope with no result field; with
\* ifModifiedSince absent or below it, the indexes payload is set and its
\* lastModified is that mtime.
C13_IfModifiedSince ==
    (/\ Answered
     /\ request.route = "getIndexes"
     /\ answeredBy \notin {"check_version", "authenticate"})
    => IF /\ Has(request.args, "ifModifiedSince")
          /\ int(request.args["ifModifiedSince"]) >= Watermark(lib)
       THEN /\ resp.kind = "envelope" /\ resp.status = "ok"
            /\ resp.error = "none" /\ resp.payload = {}
       ELSE /\ resp.kind = "envelope" /\ resp.status = "ok"
            /\ resp.payload = {"indexes"}
            /\ resp.lastModified = Watermark(lib)

\* The size the client asked getRandomSongs for: 10 when none is sent.
RequestedSize == int(Get(request.args, "size", str(10)))

\* The tracks that pass the filters of the request, as positions in the library.
FilteredSet ==
    LET result == random_songs_result(lib, Arg(request.args, "genre"),
                                      Arg(request.args, "fromYear"),
                                      Arg(request.args, "toYear"),
                                      Arg(request.args, "musicFolderId"))
    IN  {result[i] : i \in 1..Len(result)}

\* C14: getRandomSongs brings the requested size into 0..500 before it
\* calls the BeetsModel, and the result holds exactly min(clamped size, M)
\* songs of the M tracks that pass the filters, none of them twice.
C14_RandomSongs ==
    (/\ Answered
     /\ request.route = "getRandomSongs"
     /\ answeredBy \notin {"check_version", "authenticate"}
     /\ Numeric(Get(request.args, "size", str(10))))
    => LET clamped == IF RequestedSize < 0 THEN 0
                      ELSE IF RequestedSize > 500 THEN 500 ELSE RequestedSize
           M == Cardinality(FilteredSet)
       IN  /\ sizeArg = clamped
           /\ resp.kind = "envelope" /\ resp.status = "ok"
           /\ resp.payload = {"randomSongs"}
           /\ Len(resp.songs) = (IF clamped < M THEN clamped ELSE M)
           /\ \A j \in 1..Len(resp.songs) :
                  \E i \in FilteredSet : lib.items[i].id = resp.songs[j]
           /\ \A j, k \in 1..Len(resp.songs) : j # k => resp.songs[j] # resp.songs[k]

\* A request for 2 songs of a genre that two of the three tracks have was
\* answered with those two tracks, the later one first.
C14_Witness ==
    /\ pc = "done" /\ request.route = "getRandomSongs"
    /\ Has(request.args, "size") /\ request.args["size"] = <<"2">>
    /\ Has(request.args, "genre") /\ request.args["genre"] = <<"r">>
    /\ sizeArg = 2
    /\ resp.songs = <<5, 1>>

\* The write and mutation routes: user management, playlist mutation, star
\* and rating, scrobble, shares, podcasts, jukebox, chat and bookmarks.
WriteRoutes ==
    {"createUser", "updateUser", "deleteUser", "changePassword",
     "createPlaylist", "updatePlaylist", "deletePlaylist",
     "star", "unstar", "setRating", "scrobble",
     "createShare", "updateShare", "deleteShare",
     "refreshPodcasts", "createPodcastChannel", "deletePodcastChannel",
     "deletePodcastEpisode", "downloadPodcastEpisode",
     "jukeboxControl", "addChatMessage", "createBookmark", "deleteBookmark"}

\* C15: every write or mutation route answers a request that passed the
\* version and credential checks with a failed envelope carrying the
\* user-not-authorized error, whatever its other arguments, and calls no
\* method of the BeetsModel.
C15_WriteRoutesForbidden ==
    (/\ Answered
     /\ request.route \in WriteRoutes
     /\ answeredBy \notin {"check_version", "authenticate"})
    => /\ FailedWith("USER_NOT_AUTHORIZED_ERROR_CODE")
       /\ answeredBy = "view"
       /\ raised = "none"
       /\ modelCalls = {}

\* deletePlaylist with the id of an existing playlist was refused.
C15_Witness ==
    /\ pc = "done"
    /\ request.route = "deletePlaylist"
    /\ Has(request.args, "id") /\ request.args["id"] = get_playlist_id(<<"p">>)
    /\ FailedWith("USER_NOT_AUTHORIZED_ERROR_CODE")
    /\ modelCalls = {}

\* C16 (as claimed): getPlaylist with a well-formed playlist id whose file
\* is missing is answered with the failed envelope carrying the
\* data-not-found error, not with an ok envelope without a payload.
C16_PlaylistFileMissing ==
    (/\ Answered
     /\ request.route = "getPlaylist"
     /\ answeredBy \notin {"check_version", "authenticate"}
     /\ Has(request.args, "id")
     /\ HasColon(request.args["id"])
     /\ KindPart(request.args["id"]) = playlist
     /\ RawPart(request.args["id"]) \notin lib.playlists)
    => FailedWith("DATA_NOT_FOUND_ERROR_CODE")

\* The art path of the album with the given number ("": no such album, or
\* an album without art).
ArtOfAlbum(library, n) ==
    IF \E i \in 1..Len(library.albums) : library.albums[i].id = n
    THEN library.albums[CHOOSE i \in 1..Len(library.albums) : library.albums[i].id = n].artpath
    ELSE ""

\* The cover art a well-formed id stands for: the album's own art, the art
\* of the album that owns the track, the art of the first album of the
\* artist that has art, and none for any other id.
ExpectedArt(library, id) ==
    LET kind == KindPart(id)
        value == RawPart(id)
    IN  IF kind = album THEN ArtOfAlbum(library, int(value))
        ELSE IF kind = item
        THEN LET owners == {library.items[i].album_id : i \in
                               {j \in 1..Len(library.items) : library.items[j].id = int(value)}}
             IN  IF owners = {} \/ owners = {0} THEN ""
                 ELSE ArtOfAlbum(library, CHOOSE n \in owners : TRUE)
        ELSE IF kind = artist
        THEN LET withArt == {i \in 1..Len(library.albums) :
                                /\ library.albums[i].albumartist = value
                                /\ library.albums[i].artpath # ""}
             IN  IF withArt = {} THEN ""
                 ELSE library.albums[CHOOSE i \in withArt : \A j \in withArt : i <= j].artpath
        ELSE ""

\* getCoverArt ran on a well-formed id, for the whole file.
CoverArtRan ==
    /\ Answered
    /\ request.route = "getCoverArt"
    /\ answeredBy \notin {"check_version", "authenticate"}
    /\ request.range = NoHeader
    /\ Has(request.args, "id")
    /\ ~Malformed(request.args["id"])

\* C17 (as claimed): getCoverArt sends, for an album id, that album's art; for a track
\* id, the art of the album that owns the track; for an artist id, the art
\* of the first of the artist's albums that has art, wherever the albums
\* without art stand; and when there is no art it answers the failed
\* envelope with the data-not-found error.
C17_CoverArtByKind ==
    CoverArtRan =>
        IF ExpectedArt(lib, request.args["id"]) = ""
        THEN FailedWith("DATA_NOT_FOUND_ERROR_CODE")
        ELSE /\ resp.kind = "file"
             /\ resp.path = ExpectedArt(lib, request.args["id"])
             /\ resp.body = FileBytes(lib.sizes[resp.path])

\* What a serialized envelope must look like: at most one result field, no
\* result field next to an error, and status failed exactly when it
\* carries an error, ok otherwise.
EnvelopeWellFormed ==
    (Answered /\ resp.kind = "envelope") =>
        /\ Cardinality(resp.payload) <= 1
        /\ ~(resp.payload # {} /\ resp.error # "none")
        /\ resp.status \in {"ok", "failed"}
        /\ resp.status = "failed" <=> resp.error # "none"
        /\ resp.http = 200

\* Nothing of an earlier response is there when a request arrives.
EnvelopeFresh == (pc = "idle" /\ pc' # "idle") => (resp' = NoResp /\ raised' = "none")

\* C18: on every path of a request (version failure, credential failure,
\* missing argument, route function success or error, binary failure) the
\* envelope that is serialized carries at most one of a result payload and
\* an error, with status failed exactly when it carries an error and ok
\* otherwise; each request starts without any envelope of an earlier one.
C18_EnvelopeInvariant == [](EnvelopeWellFormed) /\ [][EnvelopeFresh]_vars

\* stream for a track that does not exist was answered with a failed
\* envelope carrying an error and no payload.
C18_Witness ==
    /\ pc = "done"
    /\ request.route = "stream"
    /\ answeredBy = "view"
    /\ resp.kind = "envelope" /\ resp.status = "failed"
    /\ resp.error = "DATA_NOT_FOUND_ERROR_CODE" /\ resp.payload = {}

\* C19 (as claimed): get_type cuts the id at its first ':' only and takes
\* all that follows as the raw value: an artist or playlist id decodes to
\* the whole remainder, and an album or item id decodes to the integer the
\* whole remainder reads as, and fails with ValueError when the remainder
\* (such as 12:extra) is no integer.
C19_FirstColonSplit ==
    (/\ extId # NoId /\ decoded # NotDecoded
     /\ HasColon(extId) /\ KindPart(extId) \in BeetIdType)
    => IF KindPart(extId) \in {album, item}
       THEN IF Numeric(RawPart(extId))
            THEN decoded = Returned(KindPart(extId), IntVal(int(RawPart(extId))))
            ELSE decoded = Raised("ValueError")
       ELSE decoded = Returned(KindPart(extId), StrVal(RawPart(extId)))

\* C20 (as claimed): in every partial-content (206) response the
\* Content-Range header bytes a-e/size describes the body that was sent:
\* the body holds exactly e - a + 1 bytes and e is at most size - 1,
\* whatever start and end were requested.
C20_ContentRangeMatchesBody ==
    (RangeServed /\ rangeOut.kind = "file" /\ rangeOut.http = 206)
    => /\ Len(rangeOut.contentRange) = 3
       /\ rangeOut.contentRange[3] = rangeIn.size
       /\ Len(rangeOut.body)
              = rangeOut.contentRange[2] - rangeOut.contentRange[1] + 1
       /\ rangeOut.contentRange[2] <= rangeIn.size - 1

\* C21 (as claimed): stream and download deliver a file only for an id of
\* kind item: an authenticated request whose well-formed id is of another
\* kind (an album id whose number is also a track's, an artist id, a
\* playlist id) is answered with the data-not-found envelope and never
\* with a track's file.
C21_StreamItemOnly ==
    (/\ Answered
     /\ answeredBy \notin {"check_version", "authenticate"}
     /\ request.route \in {"stream", "download"}
     /\ Has(request.args, "id")
     /\ ~Malformed(request.args["id"])
     /\ KindPart(request.args["id"]) \in BeetIdType \ {item})
    => /\ FailedWith("DATA_NOT_FOUND_ERROR_CODE")
       /\ resp.kind # "file"

=============================================================================
